---- MODULE Spec2Model ----
(***************************************************************************)
(* Appointment lifecycle of real-estate-simplified: the appointments      *)
(* table with its two triggers (backend/sql/schema.sql) and the request   *)
(* handlers of the appointments router (routes/appointments.js).          *)
(*                                                                         *)
(* Every pool.query is one atomic step of the store (statement plus the   *)
(* triggers it fires); a handler is the sequence of its statements, and   *)
(* the handlers of different requests interleave between statements.      *)
(***************************************************************************)
EXTENDS Integers, Sequences, FiniteSets, TLC

VARIABLES appts, now, req, resp, hits

vars == <<appts, now, req, resp, hits>>

----------------------------------------------------------------------------
(* Bounds *)

MaxAppts == 3        \* rows the appointments table may hold
MaxCancels == 3      \* cancellation reasons the notes of the table may hold
MaxTime == 26        \* the clock stops here (hours)
MaxRequests == 12    \* requests a client sends within one limiter window

----------------------------------------------------------------------------
(* Program constants and fixed data *)

DuplicateWindow == 24                 \* INTERVAL 24 HOUR

NoId == 0                             \* SQL NULL of an id / date / time column
NoTime == 0 - 1                       \* SQL NULL of a timestamp column
NoScore == 0 - 1                      \* SQL NULL of recaptcha_score

RecaptchaThreshold == 3               \* 0.3; scores are counted in tenths

ApiMax == 100                         \* limiter: max, per 15 minutes
FormMax == 10                         \* formLimiter: max, per hour

Clients == {1, 2}                     \* client addresses (req.ip)

Threads == {1, 2}                     \* concurrent requests

AdminId == 1
Agents == {2, 3}                      \* users with role agent, is_active
InactiveAgent == 4                    \* an agentId the agent lookup does not return
Actors == {AdminId} \cup Agents       \* callers that pass isAgentOrAdmin

\* properties table: id -> status (read-only for this router)
properties == (1 :> "available") @@ (2 :> "available") @@ (3 :> "sold")

Statuses == {"pending", "assigned", "scheduled", "completed", "cancelled"}

\* values the validator of PUT /:id/complete lets through
Outcomes == {"interested", "offer_made", "not_interested", "no_show", "needs_followup"}

\* appointments.outcome ENUM
OutcomeEnum == {"interested", "offer_made", "not_interested", "no_show"}

role(u) == IF u = AdminId THEN "admin" ELSE "agent"

\* a request: the handler it runs (op), where the handler stands (pc), its
\* inputs and what it has read
Idle == [op |-> "none", pc |-> "idle", id |-> NoId, user |-> NoId, prop |-> NoId,
         email |-> "", agent |-> NoId, date |-> NoId, time |-> NoId,
         notes |-> <<>>, outcome |-> "NULL", reason |-> "",
         token |-> FALSE, secret |-> FALSE, score |-> NoScore,
         startDate |-> NoId, endDate |-> NoId, month |-> NoId, year |-> NoId,
         result |-> <<>>, client |-> NoId, mail |-> "none",
         method |-> "", path |-> <<>>, handler |-> "none"]

\* a response: its kind and the request it answers
NoResp == [code |-> "none", req |-> Idle]

Ids == 1..Len(appts)

Max(S) == CHOOSE x \in S : \A y \in S : y <= x

----------------------------------------------------------------------------
(* Triggers and constraints of the appointments table *)

\* a trigger that hands out MAX(priority_number) without the + 1
insert_without_increment(p) ==
    LET S == {appts[i].priority_number : i \in {j \in Ids : appts[j].property_id = p}}
    IN  IF S = {} THEN 1 ELSE Max(S)

\* a trigger whose MAX skips the cancelled rows
insert_skips_cancelled(p) ==
    LET S == {appts[i].priority_number :
                i \in {j \in Ids : /\ appts[j].property_id = p
                                   /\ appts[j].status # "cancelled"}}
    IN  IF S = {} THEN 1 ELSE Max(S) + 1

\* before_appointment_insert: COALESCE(MAX(priority_number), 0) + 1 over the
\* rows of the property, whatever their status
before_appointment_insert(p) ==
    LET S == {appts[i].priority_number : i \in {j \in Ids : appts[j].property_id = p}}
    IN  IF S = {} THEN 1 ELSE Max(S) + 1

\* a trigger whose UPDATE lacks AND status != 'cancelled'
cancel_renumbers_cancelled(tbl, id, old, new) ==
    IF old.status # "cancelled" /\ new.status = "cancelled"
    THEN [i \in DOMAIN tbl |->
            IF /\ i # id
               /\ tbl[i].property_id = new.property_id
               /\ tbl[i].priority_number > new.priority_number
            THEN [tbl[i] EXCEPT !.priority_number = @ - 1]
            ELSE tbl[i]]
    ELSE tbl

\* after_appointment_cancel: fired by an UPDATE of row id whose old status is
\* old and whose new image is new; tbl is the table after the row update
after_appointment_cancel(tbl, id, old, new) ==
    IF old.status # "cancelled" /\ new.status = "cancelled"
    THEN [i \in DOMAIN tbl |->
            IF /\ tbl[i].property_id = new.property_id
               /\ tbl[i].priority_number > new.priority_number
               /\ tbl[i].status # "cancelled"
            THEN [tbl[i] EXCEPT !.priority_number = @ - 1]
            ELSE tbl[i]]
    ELSE tbl

\* UPDATE appointments SET ... WHERE id = ?, with the AFTER UPDATE trigger
UpdateRow(id, new) ==
    after_appointment_cancel([appts EXCEPT ![id] = new], id, appts[id], new)

\* UNIQUE KEY unique_property_schedule (property_id, scheduled_date,
\* scheduled_time): would giving row id the slot (d, tm) duplicate a key?
\* Rows with a NULL in the key never collide.
unique_property_schedule(id, d, tm) ==
    \E j \in Ids : /\ j # id
                   /\ appts[j].property_id = appts[id].property_id
                   /\ d # NoId /\ tm # NoId
                   /\ appts[j].scheduled_date = d
                   /\ appts[j].scheduled_time = tm

----------------------------------------------------------------------------
\* the hit counts of the two rate limiters in their current windows, by client
\* address, and the submissions each client has sent in the current hour
NoHits == [api |-> [c \in Clients |-> 0], form |-> [c \in Clients |-> 0],
           posts |-> [c \in Clients |-> 0]]

Init ==
    /\ appts = <<>>
    /\ now = 1
    /\ req = [t \in Threads |-> Idle]
    /\ resp = [t \in Threads |-> NoResp]
    /\ hits = NoHits

\* A request arrives at t.  Responses of requests that ended before it arrived
\* are forgotten: responses held together answer requests that overlapped.
Forget(t) ==
    [u \in Threads |-> IF u = t \/ req[u].pc = "idle" THEN NoResp ELSE resp[u]]

\* the handler answers request r
Reply(t, r, c) ==
    /\ req' = [req EXCEPT ![t] = Idle]
    /\ resp' = [IF req[t].pc = "idle" THEN Forget(t) ELSE resp
                  EXCEPT ![t] = [code |-> c, req |-> [r EXCEPT !.pc = "idle"]]]

\* the deployment has a mail account (process.env.SMTP_USER)
SMTP_USER == TRUE

\* sendNotificationEmail: the mail handed to the transporter, by its subject;
\* nothing is sent without a mail account, and a failure of the transporter
\* is logged and goes no further
sendNotificationEmail(subject) == IF SMTP_USER THEN subject ELSE "none"

\* the handler goes on to its next statement
Goto(t, r) ==
    /\ req' = [req EXCEPT ![t] = r]
    /\ resp' = IF req[t].pc = "idle" THEN Forget(t) ELSE resp

----------------------------------------------------------------------------
(* POST /api/appointments *)

\* a duplicate query whose window is one hour short
duplicates_short_window(p, e) ==
    {i \in Ids : /\ appts[i].property_id = p
                 /\ appts[i].customer_email = e
                 /\ appts[i].created_at > now - (DuplicateWindow - 1)}

\* rows the duplicate query returns
duplicates(p, e) ==
    {i \in Ids : /\ appts[i].property_id = p
                 /\ appts[i].customer_email = e
                 /\ appts[i].created_at > now - DuplicateWindow}

\* a handler that looks the property up but does not read its status
submit_without_status_check(t, p, e) ==
    LET r == [Idle EXCEPT !.op = "create", !.prop = p, !.email = e] IN
    /\ req[t].pc = "idle"
    /\ UNCHANGED <<appts, now, hits>>
    /\ IF p \notin DOMAIN properties
       THEN Reply(t, r, "PropertyNotFound")
       ELSE IF duplicates(p, e) # {}
       THEN Reply(t, r, "DuplicateRequest")
       ELSE Len(appts) < MaxAppts /\ Goto(t, [r EXCEPT !.pc = "insert"])

\* property lookup and duplicate check; a submission that passes them is
\* taken while the table has room
CreateSubmit(t, p, e) ==
    LET r == [Idle EXCEPT !.op = "create", !.prop = p, !.email = e] IN
    /\ req[t].pc = "idle"
    /\ UNCHANGED <<appts, now, hits>>
    /\ IF p \notin DOMAIN properties
       THEN Reply(t, r, "PropertyNotFound")
       ELSE IF properties[p] # "available"
       THEN Reply(t, r, "PropertyUnavailable")
       ELSE IF duplicates(p, e) # {}
       THEN Reply(t, r, "DuplicateRequest")
       ELSE Len(appts) < MaxAppts /\ Goto(t, [r EXCEPT !.pc = "insert"])

\* verifyRecaptcha: without RECAPTCHA_SECRET_KEY (secret) the verification is
\* skipped; with it the answer g of the siteverify service is returned
\* ({success: false} when the call fails)
verifyRecaptcha(secret, g) ==
    IF ~secret THEN [success |-> TRUE, score |-> 10] ELSE g

\* answers of the siteverify service
Verdicts ==
    {[success |-> FALSE, score |-> NoScore]}
        \cup {[success |-> TRUE, score |-> sc] : sc \in {2, 3, 4}}

\* POST / with the reCAPTCHA step: a request with a recaptchaToken (tok) is
\* verified and refused when the verification fails or the score is below
\* the threshold; a request without one is not verified.  Then the property
\* lookup and the duplicate check.
CreateVerify(t, p, e, tok, secret, g) ==
    LET v == verifyRecaptcha(secret, g)
        r == [Idle EXCEPT !.op = "create", !.prop = p, !.email = e,
                          !.token = tok, !.secret = secret,
                          !.score = IF tok /\ v.success THEN v.score ELSE NoScore]
    IN
    /\ req[t].pc = "idle"
    /\ UNCHANGED <<appts, now, hits>>
    /\ IF tok /\ ~v.success
       THEN Reply(t, r, "RecaptchaFailed")
       ELSE IF tok /\ v.score < RecaptchaThreshold
       THEN Reply(t, r, "Blocked")
       ELSE IF p \notin DOMAIN properties
       THEN Reply(t, r, "PropertyNotFound")
       ELSE IF properties[p] # "available"
       THEN Reply(t, r, "PropertyUnavailable")
       ELSE IF duplicates(p, e) # {}
       THEN Reply(t, r, "DuplicateRequest")
       ELSE Len(appts) < MaxAppts /\ Goto(t, [r EXCEPT !.pc = "insert"])

\* the inserted row; priority_number is set by the BEFORE INSERT trigger
NewRow(p, e, sc) ==
    [property_id |-> p, customer_email |-> e, recaptcha_score |-> sc,
     priority_number |-> before_appointment_insert(p),
     assigned_agent_id |-> NoId, assigned_at |-> NoTime,
     scheduled_date |-> NoId, scheduled_time |-> NoId,
     status |-> "pending", outcome |-> "NULL",
     agent_notes |-> <<>>, completed_at |-> NoTime, created_at |-> now]

\* INSERT, confirmation mail, 201 with insertId
CreateInsert(t) ==
    /\ req[t].pc = "insert"
    /\ appts' = Append(appts, NewRow(req[t].prop, req[t].email, req[t].score))
    /\ Reply(t, [req[t] EXCEPT !.id = Len(appts) + 1,
                               !.mail = sendNotificationEmail("Viewing Request Received")],
             "Created")
    /\ UNCHANGED <<now, hits>>

----------------------------------------------------------------------------
(* PUT /api/appointments/:id/assign   (authenticateToken, isAdmin) *)

\* a handler that looks the appointment up but not the agent
assign_without_agent_lookup(t, id, a) ==
    LET r == [Idle EXCEPT !.op = "assign", !.id = id, !.user = AdminId, !.agent = a] IN
    /\ req[t].pc = "idle"
    /\ UNCHANGED <<appts, now, hits>>
    /\ IF id \notin Ids
       THEN Reply(t, r, "NotFound")
       ELSE Goto(t, [r EXCEPT !.pc = "assign_update"])

\* appointment lookup by id, agent lookup (role agent, is_active)
AssignStart(t, id, a) ==
    LET r == [Idle EXCEPT !.op = "assign", !.id = id, !.user = AdminId, !.agent = a] IN
    /\ req[t].pc = "idle"
    /\ UNCHANGED <<appts, now, hits>>
    /\ IF id \notin Ids
       THEN Reply(t, r, "NotFound")
       ELSE IF a \notin Agents
       THEN Reply(t, r, "AgentInactive")
       ELSE Goto(t, [r EXCEPT !.pc = "assign_update"])

\* an UPDATE that forgets assigned_agent_id
assign_without_agent(row, a) ==
    [row EXCEPT !.assigned_at = now, !.status = "assigned"]

\* UPDATE ... SET assigned_agent_id, assigned_at = NOW(), status = 'assigned'
AssignRow(row, a) ==
    [row EXCEPT !.assigned_agent_id = a, !.assigned_at = now, !.status = "assigned"]

\* the UPDATE, then the mail to the agent
AssignUpdate(t) ==
    /\ req[t].pc = "assign_update"
    /\ appts' = UpdateRow(req[t].id, AssignRow(appts[req[t].id], req[t].agent))
    /\ Reply(t, [req[t] EXCEPT
                   !.mail = sendNotificationEmail("New Viewing Request Assigned")],
             "Ok")
    /\ UNCHANGED <<now, hits>>

----------------------------------------------------------------------------
(* PUT /api/appointments/:id/schedule   (authenticateToken, isAgentOrAdmin) *)

\* SELECT ... WHERE a.id = ? AND a.assigned_agent_id = ?  (req.user.id)
OwnedBy(id, u) == id \in Ids /\ appts[id].assigned_agent_id = u

ScheduleStart(t, id, u, d, tm, n) ==
    LET r == [Idle EXCEPT !.op = "schedule", !.id = id, !.user = u,
                          !.date = d, !.time = tm, !.notes = n] IN
    /\ req[t].pc = "idle"
    /\ UNCHANGED <<appts, now, hits>>
    /\ IF ~OwnedBy(id, u)
       THEN Reply(t, r, "NotOwned")
       ELSE Goto(t, [r EXCEPT !.pc = "schedule_check", !.prop = appts[id].property_id])

\* rows the double-booking query returns
conflicts(p, d, tm, id) ==
    {j \in Ids : /\ appts[j].property_id = p
                 /\ appts[j].scheduled_date = d
                 /\ appts[j].scheduled_time = tm
                 /\ j # id
                 /\ appts[j].status # "cancelled"}

ScheduleCheck(t) ==
    /\ req[t].pc = "schedule_check"
    /\ UNCHANGED <<appts, now, hits>>
    /\ IF conflicts(req[t].prop, req[t].date, req[t].time, req[t].id) # {}
       THEN Reply(t, req[t], "SlotConflict")
       ELSE Goto(t, [req[t] EXCEPT !.pc = "schedule_update"])

\* an UPDATE that also blanks the customer's email
schedule_blanks_customer(row, d, tm, n) ==
    [row EXCEPT !.scheduled_date = d, !.scheduled_time = tm,
                !.agent_notes = n, !.status = "scheduled",
                !.customer_email = ""]

\* UPDATE ... SET scheduled_date, scheduled_time, agent_notes, status = 'scheduled'
ScheduleRow(row, d, tm, n) ==
    [row EXCEPT !.scheduled_date = d, !.scheduled_time = tm,
                !.agent_notes = n, !.status = "scheduled"]

\* the UPDATE, then the mail to the customer; ER_DUP_ENTRY of the unique key is
\* answered 409 like the pre-check
ScheduleUpdate(t) ==
    /\ req[t].pc = "schedule_update"
    /\ UNCHANGED <<now, hits>>
    /\ IF unique_property_schedule(req[t].id, req[t].date, req[t].time)
       THEN /\ UNCHANGED appts
            /\ Reply(t, req[t], "SlotConflict")
       ELSE /\ appts' = UpdateRow(req[t].id,
                           ScheduleRow(appts[req[t].id], req[t].date, req[t].time, req[t].notes))
            /\ Reply(t, [req[t] EXCEPT
                           !.mail = sendNotificationEmail("Viewing Scheduled")],
                     "Ok")

----------------------------------------------------------------------------
(* PUT /api/appointments/:id/complete   (authenticateToken, isAgentOrAdmin) *)

CompleteStart(t, id, u, o) ==
    LET r == [Idle EXCEPT !.op = "complete", !.id = id, !.user = u, !.outcome = o] IN
    /\ req[t].pc = "idle"
    /\ UNCHANGED <<appts, now, hits>>
    /\ IF ~OwnedBy(id, u)
       THEN Reply(t, r, "NotOwned")
       ELSE Goto(t, [r EXCEPT !.pc = "complete_update"])

\* what the outcome column keeps of a value: a member of the ENUM as it is,
\* any other value as the empty string (a server not in strict SQL mode)
outcome_column(o) == IF o \in OutcomeEnum THEN o ELSE ""

\* UPDATE ... SET status = 'completed', outcome, outcome_notes,
\* agent_notes = COALESCE(?, agent_notes), completed_at = NOW()
\* (no agentNotes in the request: COALESCE keeps the stored notes)
CompleteRow(row, o) ==
    [row EXCEPT !.status = "completed", !.outcome = outcome_column(o),
                !.completed_at = now]

\* the UPDATE; a server in strict SQL mode rejects a value outside the ENUM
\* and the handler's catch answers 500
CompleteUpdate(t) ==
    /\ req[t].pc = "complete_update"
    /\ UNCHANGED <<now, hits>>
    /\ \E strict \in BOOLEAN :
          IF strict /\ req[t].outcome \notin OutcomeEnum
          THEN /\ UNCHANGED appts
               /\ Reply(t, req[t], "InternalError")
          ELSE /\ appts' = UpdateRow(req[t].id,
                              CompleteRow(appts[req[t].id], req[t].outcome))
               /\ Reply(t, req[t], "Ok")

----------------------------------------------------------------------------
(* PUT /api/appointments/:id/cancel   (authenticateToken, isAgentOrAdmin) *)

\* a lookup by id alone, whoever calls
cancel_finds_by_id(id, u) == id \in Ids

\* SELECT * FROM appointments WHERE id = ? [AND assigned_agent_id = ?]
CancelFinds(id, u) ==
    /\ id \in Ids
    /\ role(u) = "agent" => appts[id].assigned_agent_id = u

\* cancellation reasons recorded in the notes of rows 1..k
RECURSIVE Cancellations(_)
Cancellations(k) ==
    IF k = 0 THEN 0
    ELSE Cancellations(k - 1)
         + Cardinality({x \in 1..Len(appts[k].agent_notes) : appts[k].agent_notes[x] # "note"})

CancelStart(t, id, u, rs) ==
    LET r == [Idle EXCEPT !.op = "cancel", !.id = id, !.user = u, !.reason = rs] IN
    /\ req[t].pc = "idle"
    /\ Cancellations(Len(appts)) < MaxCancels
    /\ UNCHANGED <<appts, now, hits>>
    /\ IF ~CancelFinds(id, u)
       THEN Reply(t, r, "NotFound")
       ELSE Goto(t, [r EXCEPT !.pc = "cancel_update"])

\* an UPDATE that sets agent_notes to the reason alone
cancel_overwrites_notes(row, rs) ==
    [row EXCEPT !.status = "cancelled",
                !.agent_notes = <<"Cancelled: " \o rs>>]

\* UPDATE ... SET status = 'cancelled',
\* agent_notes = CONCAT(COALESCE(agent_notes, ''), '\nCancelled: ', ?)
CancelRow(row, rs) ==
    [row EXCEPT !.status = "cancelled",
                !.agent_notes = Append(@, "Cancelled: " \o rs)]

CancelUpdate(t) ==
    /\ req[t].pc = "cancel_update"
    /\ appts' = UpdateRow(req[t].id, CancelRow(appts[req[t].id], req[t].reason))
    /\ Reply(t, req[t], "Ok")
    /\ UNCHANGED <<now, hits>>

----------------------------------------------------------------------------
(* GET /api/appointments/calendar   (authenticateToken, isAgentOrAdmin) *)

\* a date is the number yyyymmdd: dates compare as their ISO texts do
MONTH(d) == (d \div 100) % 100
YEAR(d) == d \div 10000

\* a WHERE clause without the status condition
calendar_any_status(sd, ed, m, y) ==
    {i \in Ids :
        /\ appts[i].scheduled_date # NoId
        /\ IF sd # NoId /\ ed # NoId
           THEN sd <= appts[i].scheduled_date /\ appts[i].scheduled_date <= ed
           ELSE IF m # NoId /\ y # NoId
           THEN MONTH(appts[i].scheduled_date) = m /\ YEAR(appts[i].scheduled_date) = y
           ELSE TRUE}

\* rows the WHERE clause selects: scheduled_date IS NOT NULL AND status IN
\* ('scheduled', 'completed'), then BETWEEN ? AND ? when startDate and endDate
\* are given, else MONTH() = ? AND YEAR() = ? when month and year are given
CalendarRows(sd, ed, m, y) ==
    {i \in Ids :
        /\ appts[i].scheduled_date # NoId
        /\ appts[i].status \in {"scheduled", "completed"}
        /\ IF sd # NoId /\ ed # NoId
           THEN sd <= appts[i].scheduled_date /\ appts[i].scheduled_date <= ed
           ELSE IF m # NoId /\ y # NoId
           THEN MONTH(appts[i].scheduled_date) = m /\ YEAR(appts[i].scheduled_date) = y
           ELSE TRUE}

\* ORDER BY a.scheduled_date ASC, a.scheduled_time ASC
CalendarBefore(i, j) ==
    \/ appts[i].scheduled_date < appts[j].scheduled_date
    \/ /\ appts[i].scheduled_date = appts[j].scheduled_date
       /\ appts[i].scheduled_time <= appts[j].scheduled_time

\* the orders in which the store may return the rows S: rows equal in date
\* and time come in any order
OrderedBy(S) ==
    {sq \in [1..Cardinality(S) -> S] :
        /\ \A a, b \in 1..Cardinality(S) : a # b => sq[a] # sq[b]
        /\ \A a, b \in 1..Cardinality(S) : a < b => CalendarBefore(sq[a], sq[b])}

GetCalendar(t, u, sd, ed, m, y) ==
    /\ req[t].pc = "idle"
    /\ u \in Actors
    /\ UNCHANGED <<appts, now, hits>>
    /\ \E sq \in OrderedBy(CalendarRows(sd, ed, m, y)) :
          Reply(t, [Idle EXCEPT !.op = "calendar", !.user = u,
                                !.startDate = sd, !.endDate = ed,
                                !.month = m, !.year = y, !.result = sq], "Ok")

----------------------------------------------------------------------------
(* The middleware chain of server.js for a request under /api/appointments:
   app.use('/api', limiter), app.use('/api/appointments', appointmentsRoutes),
   app.use('/api/appointments', formLimiter), in this order.  A limiter counts
   the request and answers 429 once the count exceeds its max. *)

\* POST /api/appointments from client c: limiter, then the router, whose
\* router.post('/') handles the request and answers it without next()
PostAppointments(t, c, p, e) ==
    LET r == [Idle EXCEPT !.op = "create", !.prop = p, !.email = e, !.client = c]
        api == hits.api[c] + 1
    IN
    /\ req[t].pc = "idle"
    /\ hits.api[c] < MaxRequests
    /\ UNCHANGED <<appts, now>>
    /\ hits' = [hits EXCEPT !.api[c] = api, !.posts[c] = @ + 1]
    /\ IF api > ApiMax
       THEN Reply(t, r, "TooManyRequests")
       ELSE IF p \notin DOMAIN properties
       THEN Reply(t, r, "PropertyNotFound")
       ELSE IF properties[p] # "available"
       THEN Reply(t, r, "PropertyUnavailable")
       ELSE IF duplicates(p, e) # {}
       THEN Reply(t, r, "DuplicateRequest")
       ELSE Len(appts) < MaxAppts /\ Goto(t, [r EXCEPT !.pc = "insert"])

\* a request under /api/appointments that no route of the router matches:
\* limiter, the router passes it on, formLimiter, then no handler is left
Unrouted(t, c) ==
    LET r == [Idle EXCEPT !.op = "unrouted", !.client = c]
        api == hits.api[c] + 1
        form == hits.form[c] + 1
    IN
    /\ req[t].pc = "idle"
    /\ hits.api[c] < MaxRequests
    /\ UNCHANGED <<appts, now>>
    /\ IF api > ApiMax
       THEN /\ hits' = [hits EXCEPT !.api[c] = api]
            /\ Reply(t, r, "TooManyRequests")
       ELSE /\ hits' = [hits EXCEPT !.api[c] = api, !.form[c] = form]
            /\ Reply(t, r, IF form > FormMax THEN "TooManyRequests" ELSE "NoRoute")

----------------------------------------------------------------------------
(* The properties router, mounted at /api/properties.  A path is the sequence
   of its segments below the mount point. *)

\* segments of a route's path that take any value
Params == {":id", ":photoId"}

\* the routes in the order in which the router registers them
Routes ==
    << [method |-> "GET",    path |-> <<>>,                            auth |-> "public"],
       [method |-> "GET",    path |-> <<":id">>,                       auth |-> "public"],
       [method |-> "POST",   path |-> <<>>,                            auth |-> "agent"],
       [method |-> "PUT",    path |-> <<":id">>,                       auth |-> "agent"],
       [method |-> "DELETE", path |-> <<":id">>,                       auth |-> "admin"],
       [method |-> "POST",   path |-> <<":id", "photos">>,             auth |-> "agent"],
       [method |-> "DELETE", path |-> <<":id", "photos", ":photoId">>, auth |-> "admin"],
       [method |-> "PUT",    path |-> <<":id", "mark-sold">>,          auth |-> "agent"],
       [method |-> "GET",    path |-> <<"sold", "all">>,               auth |-> "admin"],
       [method |-> "GET",    path |-> <<"my-sales">>,                  auth |-> "agent"],
       [method |-> "GET",    path |-> <<"sold", "export">>,            auth |-> "admin"] >>

\* does the route's path match the request's
Match(pattern, path) ==
    /\ Len(pattern) = Len(path)
    /\ \A i \in 1..Len(path) : pattern[i] \in Params \/ pattern[i] = path[i]

\* the first route registered that matches method and path, 0 when none does
Dispatch(m, path) ==
    LET S == {k \in 1..Len(Routes) : Routes[k].method = m /\ Match(Routes[k].path, path)}
    IN  IF S = {} THEN 0 ELSE CHOOSE k \in S : \A j \in S : k <= j

\* the name under which a route is known: its method and path
RouteName(k) ==
    LET Join[i \in 0..Len(Routes[k].path)] ==
            IF i = 0 THEN Routes[k].method \o " " ELSE Join[i - 1] \o "/" \o Routes[k].path[i]
    IN  Join[Len(Routes[k].path)]

\* WHERE p.id = ? with the segment as a string: a string that is no number
\* compares as 0
PropertyId(seg) ==
    CASE seg = "1" -> 1 [] seg = "2" -> 2 [] seg = "3" -> 3 [] seg = "9" -> 9 [] OTHER -> 0

\* a request to the properties router by user u (NoId: without a token): the
\* route, authenticateToken and the role check where the route has them, then
\* the handler.  GET /:id looks the property up; of the other handlers only
\* the fact that they ran is kept.
PropertiesRequest(t, u, m, path) ==
    LET k == Dispatch(m, path)
        r == [Idle EXCEPT !.op = "properties", !.user = u, !.method = m, !.path = path,
                          !.handler = IF k = 0 THEN "none" ELSE RouteName(k)]
    IN
    /\ req[t].pc = "idle"
    /\ UNCHANGED <<appts, now, hits>>
    /\ IF k = 0
       THEN Reply(t, r, "NoRoute")
       ELSE IF Routes[k].auth # "public" /\ u = NoId
       THEN Reply(t, r, "Unauthorized")
       ELSE IF Routes[k].auth = "admin" /\ role(u) # "admin"
       THEN Reply(t, r, "Forbidden")
       ELSE IF RouteName(k) = "GET /:id"
       THEN IF PropertyId(path[1]) \in DOMAIN properties
            THEN Reply(t, [r EXCEPT !.prop = PropertyId(path[1])], "Ok")
            ELSE Reply(t, r, "PropertyNotFound")
       ELSE Reply(t, r, "Handled")

----------------------------------------------------------------------------
\* a write statement rejected by the store: the handler's catch answers 500
WritePcs == {"insert", "assign_update", "schedule_update", "complete_update",
             "cancel_update"}

\* a handler that mails before its write statement
store_error_after_mail(t) ==
    /\ req[t].pc \in WritePcs
    /\ Reply(t, [req[t] EXCEPT !.mail = sendNotificationEmail("Viewing Scheduled")],
             "InternalError")
    /\ UNCHANGED <<appts, now, hits>>

StoreError(t) ==
    /\ req[t].pc \in WritePcs
    /\ Reply(t, req[t], "InternalError")
    /\ UNCHANGED <<appts, now, hits>>

\* time passes, d hours: the windows of both rate limiters are over
Tick(d) ==
    /\ now + d <= MaxTime
    /\ now' = now + d
    /\ hits' = NoHits
    /\ UNCHANGED <<appts, req, resp>>

----------------------------------------------------------------------------
(* Specifications.  Each draws its requests from small input sets.  Property
   3 is sold, property 4 does not exist; user 1 is the admin, users 2 and 3
   are active agents, user 4 is an agent who is not active. *)

\* One request at a time, every handler run to its response before the next
\* starts: two customers of property 1, agent 2 assignable, agent 3 another
\* caller, two times of one day.
SeqCreates == {<<1, "e1">>, <<1, "e2">>, <<3, "e1">>, <<4, "e1">>}

NextSeq ==
    \/ \E c \in SeqCreates : CreateSubmit(1, c[1], c[2])
    \/ \E id \in 1..2, a \in {2, InactiveAgent} : AssignStart(1, id, a)
    \/ \E id \in 1..2, u \in Actors, tm \in {1, 2} :
          ScheduleStart(1, id, u, 1, tm, <<"note">>)
    \/ \E id \in 1..2, u \in Actors : CompleteStart(1, id, u, "interested")
    \/ \E id \in 1..2, u \in Actors : CancelStart(1, id, u, "r")
    \/ CreateInsert(1)
    \/ AssignUpdate(1)
    \/ ScheduleCheck(1)
    \/ ScheduleUpdate(1)
    \/ CompleteUpdate(1)
    \/ CancelUpdate(1)
    \/ StoreError(1)

SeqSpec == Init /\ [][NextSeq]_vars

\* The priority queue, one request at a time: three customers of property 1
\* and one of property 2; the first two rows may be assigned to agent 2; the
\* admin and agent 2 cancel.
QueueCreates == {<<1, "e1">>, <<1, "e2">>, <<1, "e3">>, <<2, "e1">>}

NextQueue ==
    \/ \E c \in QueueCreates : CreateSubmit(1, c[1], c[2])
    \/ \E id \in 1..2 : AssignStart(1, id, 2)
    \/ \E id \in 1..4, u \in {AdminId, 2} : CancelStart(1, id, u, "r")
    \/ CreateInsert(1)
    \/ AssignUpdate(1)
    \/ CancelUpdate(1)
    \/ StoreError(1)

QueueSpec == Init /\ [][NextQueue]_vars

\* Concurrent requests: the handlers of two requests interleave between their
\* statements.  Three customers of property 1 submit, the admin cancels the
\* first two appointments.
Creates == {<<1, "e1">>, <<1, "e2">>, <<1, "e3">>}

Next ==
    \E t \in Threads :
        \/ \E c \in Creates : CreateSubmit(t, c[1], c[2])
        \/ \E id \in 1..2 : CancelStart(t, id, AdminId, "r")
        \/ CreateInsert(t)
        \/ CancelUpdate(t)
        \/ StoreError(t)

Spec == Init /\ [][Next]_vars

\* Concurrent scheduling: both requests may be schedule requests of agent 2
\* for the one slot; request 1 also submits, assigns and cancels row 1.
NextSchedule ==
    \/ \E c \in Creates : CreateSubmit(1, c[1], c[2])
    \/ \E id \in 1..3 : AssignStart(1, id, 2)
    \/ CancelStart(1, 1, AdminId, "r")
    \/ CreateInsert(1)
    \/ AssignUpdate(1)
    \/ CancelUpdate(1)
    \/ \E t \in Threads :
        \/ \E id \in 1..3 : ScheduleStart(t, id, 2, 1, 1, <<>>)
        \/ ScheduleCheck(t)
        \/ ScheduleUpdate(t)
        \/ StoreError(t)

ScheduleSpec == Init /\ [][NextSchedule]_vars

\* Submissions over time, one request at a time: two customers of property 1,
\* the clock advancing by one hour or by 23 hours; the admin may cancel.
NextTime ==
    \/ \E e \in {"e1", "e2"} : CreateSubmit(1, 1, e)
    \/ CreateInsert(1)
    \/ \E id \in 1..MaxAppts : CancelStart(1, id, AdminId, "r")
    \/ CancelUpdate(1)
    \/ StoreError(1)
    \/ \E d \in {1, 23} : Tick(d)

TimeSpec == Init /\ [][NextTime]_vars

\* The lifecycle, one request at a time, with a store that is up: two
\* customers of property 1, both assignable to agent 2, who schedules the one
\* slot; the admin and agent 2 schedule and complete the first appointment,
\* with every outcome the validator accepts; the admin cancels it.
NextLife ==
    \/ \E e \in {"e1", "e2"} : CreateSubmit(1, 1, e)
    \/ \E id \in 1..2 : AssignStart(1, id, 2)
    \/ \E id \in 1..2 : ScheduleStart(1, id, 2, 1, 1, <<>>)
    \/ ScheduleStart(1, 1, AdminId, 1, 1, <<>>)
    \/ \E u \in {AdminId, 2}, o \in Outcomes : CompleteStart(1, 1, u, o)
    \/ CancelStart(1, 1, AdminId, "r")
    \/ CreateInsert(1)
    \/ AssignUpdate(1)
    \/ ScheduleCheck(1)
    \/ ScheduleUpdate(1)
    \/ CompleteUpdate(1)
    \/ CancelUpdate(1)

LifeSpec == Init /\ [][NextLife]_vars

\* Submissions with the reCAPTCHA step, one request at a time: two customers
\* of property 1, with and without a token, the secret key configured or not,
\* every answer of the siteverify service.
NextAbuse ==
    \/ \E e \in {"e1", "e2"}, tok \in BOOLEAN, secret \in BOOLEAN, g \in Verdicts :
          CreateVerify(1, 1, e, tok, secret, g)
    \/ CreateInsert(1)
    \/ StoreError(1)

AbuseSpec == Init /\ [][NextAbuse]_vars

\* The shared calendar, one request at a time: a customer of property 1 and
\* one of property 2, assigned to agents 2 and 3, scheduled on the last day of
\* January or the first of February 2025, completed, cancelled by the admin;
\* agent 3 reads the calendar with no filter, a date range, a month and year,
\* and a start date alone.
Jan31 == 20250131
Feb01 == 20250201

CalendarFilters ==
    {<<NoId, NoId, NoId, NoId>>, <<Jan31, Jan31, NoId, NoId>>,
     <<NoId, NoId, 2, 2025>>, <<Feb01, NoId, NoId, NoId>>}

NextCalendar ==
    \/ \E p \in 1..2 : CreateSubmit(1, p, "e1")
    \/ \E id \in 1..2 : AssignStart(1, id, id + 1)
    \/ \E id \in 1..2, d \in {Jan31, Feb01} : ScheduleStart(1, id, id + 1, d, 1, <<>>)
    \/ CompleteStart(1, 1, 2, "interested")
    \/ CancelStart(1, 2, AdminId, "r")
    \/ \E f \in CalendarFilters : GetCalendar(1, 3, f[1], f[2], f[3], f[4])
    \/ CreateInsert(1)
    \/ AssignUpdate(1)
    \/ ScheduleCheck(1)
    \/ ScheduleUpdate(1)
    \/ CompleteUpdate(1)
    \/ CancelUpdate(1)

CalendarSpec == Init /\ [][NextCalendar]_vars

\* The middleware chain, one request at a time: client 1 submits for property
\* 1 and for a property that does not exist and sends requests no route
\* matches, client 2 submits for the property that does not exist; a day
\* passes.
NextRate ==
    \/ \E p \in {1, 4} : PostAppointments(1, 1, p, "e1")
    \/ PostAppointments(1, 2, 4, "e1")
    \/ Unrouted(1, 1)
    \/ CreateInsert(1)
    \/ Tick(DuplicateWindow)

RateSpec == Init /\ [][NextRate]_vars

\* Requests to the properties router, one at a time: without a token, by the
\* admin and by agent 2.
Methods == {"GET", "POST", "PUT", "DELETE"}

Paths == {<<>>, <<"1">>, <<"3">>, <<"9">>, <<"my-sales">>, <<"sold", "all">>,
          <<"sold", "export">>, <<"1", "mark-sold">>, <<"1", "photos">>,
          <<"1", "photos", "1">>}

NextDispatch ==
    \E u \in {NoId, AdminId, 2}, m \in Methods, path \in Paths :
        PropertiesRequest(1, u, m, path)

DispatchSpec == Init /\ [][NextDispatch]_vars

----------------------------------------------------------------------------
(* Properties *)

NonCancelled(p) ==
    {i \in Ids : appts[i].property_id = p /\ appts[i].status # "cancelled"}

\* no request is in flight
Quiet == \A t \in Threads : req[t].pc = "idle"

\* this step answers the request that t is running
Answers(t, op) == req[t].op = op /\ req[t].pc # "idle" /\ req'[t].pc = "idle"

\* the row the request of t names, before and after the step
Row(t) == appts[req[t].id]
RowAfter(t) == appts'[req[t].id]

\* C1 (I1): whenever every started operation has completed, the priority
\* numbers of the non-cancelled appointments of each property are exactly
\* 1..N, N their number.
C1_DensePriorities ==
    Quiet => \A p \in DOMAIN properties :
                {appts[i].priority_number : i \in NonCancelled(p)}
                    = 1..Cardinality(NonCancelled(p))

\* C2: of two schedule requests that overlap, name different appointments of
\* one property and propose the same (date, time), a slot no third
\* non-cancelled appointment holds, exactly one is answered Ok and the other
\* SlotConflict.
C2_ExactlyOneSchedules ==
    [][\A t, u \in Threads :
          (/\ t # u
           /\ Answers(t, "schedule")
           /\ resp[u].req.op = "schedule"
           /\ resp[u].req.id # req[t].id
           /\ resp[u].req.prop = req[t].prop
           /\ resp[u].req.date = req[t].date
           /\ resp[u].req.time = req[t].time
           /\ {resp[u].code, resp'[t].code} \subseteq {"Ok", "SlotConflict"}
           /\ conflicts(req[t].prop, req[t].date, req[t].time, req[t].id)
                 \ {resp[u].req.id} = {})
          => ((resp[u].code = "Ok") # (resp'[t].code = "Ok"))]_vars

C4_CancelRenumbers ==
    [][\A t \in Threads :
          (/\ Answers(t, "cancel") /\ resp'[t].code = "Ok"
           /\ Row(t).status # "cancelled")
          => \A j \in Ids :
                appts'[j].priority_number =
                    IF /\ j # req[t].id
                       /\ appts[j].property_id = Row(t).property_id
                       /\ appts[j].status # "cancelled"
                       /\ appts[j].priority_number > Row(t).priority_number
                    THEN appts[j].priority_number - 1
                    ELSE appts[j].priority_number]_vars

\* priority 2 of {1, 2, 3} was cancelled: the property's others hold {1, 2},
\* the later one renumbered from 3
C4_Witness ==
    /\ resp[1].code = "Ok" /\ resp[1].req.op = "cancel"
    /\ Len(appts) = 3
    /\ \E c \in Ids :
          /\ c = resp[1].req.id
          /\ appts[c].property_id = 1
          /\ appts[c].status = "cancelled" /\ appts[c].priority_number = 2
          /\ Len(appts[c].agent_notes) = 1
          /\ Cardinality(NonCancelled(1)) = 2
          /\ {appts[i].priority_number : i \in NonCancelled(1)} = {1, 2}
          /\ \E i \in NonCancelled(1) : i > c /\ appts[i].priority_number = 2

\* C5: completeAppointment by the assigned agent on an appointment that is
\* not scheduled is answered InvalidTransition and changes no record.
C5_CompleteOnlyScheduled ==
    [][\A t \in Threads :
          (Answers(t, "complete") /\ Row(t).status # "scheduled")
          => (resp'[t].code = "InvalidTransition" /\ appts' = appts)]_vars

\* C6: cancelAppointment on a cancelled appointment is answered
\* InvalidTransition and changes no record.
C6_RecancelRejected ==
    [][\A t \in Threads :
          (Answers(t, "cancel") /\ Row(t).status = "cancelled")
          => (resp'[t].code = "InvalidTransition" /\ appts' = appts)]_vars

\* C7: no step changes the status of a completed or cancelled appointment.
C7_Terminal ==
    [][\A i \in Ids :
          appts[i].status \in {"completed", "cancelled"}
          => appts'[i].status = appts[i].status]_vars

\* C8: assignAgent on an appointment that is not pending is not answered Ok
\* and leaves status, assignedAgentId and assignedAt as they were.
C8_AssignOnlyPending ==
    [][\A t \in Threads :
          (Answers(t, "assign") /\ Row(t).status # "pending")
          => /\ resp'[t].code # "Ok"
             /\ RowAfter(t).status = Row(t).status
             /\ RowAfter(t).assigned_agent_id = Row(t).assigned_agent_id
             /\ RowAfter(t).assigned_at = Row(t).assigned_at]_vars

\* C9: scheduleAppointment by the assigned agent on a scheduled, completed or
\* cancelled appointment is not answered Ok and leaves scheduledDate,
\* scheduledTime, agentNotes and status as they were.
C9_ScheduleOnlyAssigned ==
    [][\A t \in Threads :
          (/\ Answers(t, "schedule")
           /\ Row(t).status \in {"scheduled", "completed", "cancelled"})
          => /\ resp'[t].code # "Ok"
             /\ RowAfter(t).scheduled_date = Row(t).scheduled_date
             /\ RowAfter(t).scheduled_time = Row(t).scheduled_time
             /\ RowAfter(t).agent_notes = Row(t).agent_notes
             /\ RowAfter(t).status = Row(t).status]_vars
\* this step is the property lookup and duplicate check of a submission by t
Submits(t) ==
    /\ req[t].pc = "idle"
    /\ \/ req'[t].pc = "insert"
       \/ /\ req'[t].pc = "idle"
          /\ resp'[t] # resp[t]
          /\ resp'[t].req.op = "create"

\* the submission of that step
Submission(t) == IF req'[t].pc = "insert" THEN req'[t] ELSE resp'[t].req

\* ages (hours) of the appointments that email e already has for property p
Ages(p, e) ==
    {now - appts[i].created_at :
        i \in {j \in Ids : appts[j].property_id = p /\ appts[j].customer_email = e}}

\* C10: a submission from an email for an available property is answered
\* DuplicateRequest and creates no appointment when an appointment of that
\* email for that property was accepted less than 24 hours before, and it
\* passes the guard when every such appointment was accepted 25 hours or more
\* before.
C10_DuplicateGuard ==
    [][\A t \in Threads :
          Submits(t) =>
            LET r == Submission(t)
                A == Ages(r.prop, r.email)
            IN  /\ (\E a \in A : a < 24)
                      => /\ resp'[t].code = "DuplicateRequest"
                         /\ req'[t].pc = "idle"
                         /\ appts' = appts
                /\ (/\ r.prop \in DOMAIN properties
                    /\ properties[r.prop] = "available"
                    /\ \A a \in A : a >= 25)
                      => req'[t].pc = "insert"]_vars

\* an email's second appointment for the property was accepted 25 hours
\* after its first, and the submission of another email 23 hours after its
\* appointment was answered DuplicateRequest
C10_Witness ==
    /\ resp[1].code = "DuplicateRequest"
    /\ \E k \in Ids :
          /\ appts[k].property_id = resp[1].req.prop
          /\ appts[k].customer_email = resp[1].req.email
          /\ now - appts[k].created_at = 23
    /\ \E i, j \in Ids :
          /\ appts[i].property_id = appts[j].property_id
          /\ appts[i].customer_email = appts[j].customer_email
          /\ appts[j].created_at = appts[i].created_at + 25

\* C11: a submission for an available property passes the duplicate guard when
\* every appointment of its email for that property created in the preceding
\* 24 hours is cancelled.
C11_GuardSkipsCancelled ==
    [][\A t \in Threads :
          Submits(t) =>
            LET r == Submission(t)
            IN  (/\ r.prop \in DOMAIN properties
                 /\ properties[r.prop] = "available"
                 /\ \A i \in Ids :
                       (/\ appts[i].property_id = r.prop
                        /\ appts[i].customer_email = r.email
                        /\ now - appts[i].created_at < 24)
                       => appts[i].status = "cancelled")
                => req'[t].pc = "insert"]_vars

\* C12: scheduleAppointment by the assigned agent of an assigned appointment
\* at a (date, time) that no other non-cancelled appointment of the property
\* holds is answered Ok and gives the appointment the slot.
C12_CancelledFreesSlot ==
    [][\A t \in Threads :
          (/\ Answers(t, "schedule")
           /\ Row(t).status = "assigned"
           /\ conflicts(req[t].prop, req[t].date, req[t].time, req[t].id) = {})
          => /\ resp'[t].code = "Ok"
             /\ RowAfter(t).scheduled_date = req[t].date
             /\ RowAfter(t).scheduled_time = req[t].time]_vars

\* this step is the first of a request of t: its lookups
Starts(t) ==
    /\ req[t].pc = "idle"
    /\ \/ req'[t].pc # "idle"
       \/ resp'[t] # resp[t] /\ resp'[t].code # "none"

\* the request of that step
Started(t) == IF req'[t].pc # "idle" THEN req'[t] ELSE resp'[t].req

\* C13: a schedule, complete or cancel call by an agent on an appointment that
\* is not assigned to that agent is rejected at its lookup and changes no
\* record.
C13_OtherAgentRejected ==
    [][\A t \in Threads :
          Starts(t) =>
            LET r == Started(t)
            IN  (/\ r.op \in {"schedule", "complete", "cancel"}
                 /\ role(r.user) = "agent"
                 /\ r.id \in Ids
                 /\ appts[r.id].assigned_agent_id # r.user)
                => /\ req'[t].pc = "idle"
                   /\ resp'[t].code \in {"NotOwned", "NotFound"}
                   /\ appts' = appts]_vars

\* agent 3 asked to cancel an appointment assigned to agent 2 and was refused
C13_Witness ==
    /\ resp[1].req.op = "cancel" /\ resp[1].code = "NotFound"
    /\ resp[1].req.user = 3
    /\ resp[1].req.id \in Ids
    /\ appts[resp[1].req.id].assigned_agent_id = 2
    /\ appts[resp[1].req.id].status = "scheduled"

\* C14: a schedule call by the admin on an assigned appointment, and a
\* complete call by the admin on a scheduled appointment, that is assigned to
\* an agent passes the ownership lookup as the assigned agent's call does, and
\* is answered Ok.
C14_AdminSchedulesCompletes ==
    [][\A t \in Threads :
          /\ Starts(t) =>
                LET r == Started(t)
                IN  (/\ r.user = AdminId
                     /\ r.id \in Ids
                     /\ appts[r.id].assigned_agent_id \in Agents
                     /\ \/ r.op = "schedule" /\ appts[r.id].status = "assigned"
                        \/ r.op = "complete" /\ appts[r.id].status = "scheduled")
                    => req'[t].pc # "idle"
          /\ (/\ Answers(t, "complete")
              /\ req[t].user = AdminId
              /\ Row(t).status = "scheduled"
              /\ req[t].outcome \in OutcomeEnum)
             => resp'[t].code = "Ok"]_vars

\* C15 (I5): a scheduled or completed appointment has both scheduledDate and
\* scheduledTime, a pending or assigned appointment has neither.
C15_ScheduleFieldsMatchStatus ==
    \A i \in Ids :
        /\ appts[i].status \in {"scheduled", "completed"}
              => appts[i].scheduled_date # NoId /\ appts[i].scheduled_time # NoId
        /\ appts[i].status \in {"pending", "assigned"}
              => appts[i].scheduled_date = NoId /\ appts[i].scheduled_time = NoId

\* C16 (I4): every appointment that is not pending has an assigned agent.
C16_NonPendingHasAgent ==
    \A i \in Ids :
        appts[i].status # "pending" => appts[i].assigned_agent_id # NoId

\* C16, amended: every assigned, scheduled or completed appointment has an
\* assigned agent, and a cancelled appointment has the assignedAgentId it had
\* before the step (none when it was cancelled while pending).
C16_ActiveHasAgent ==
    [][\A i \in 1..Len(appts') :
          /\ appts'[i].status \in {"assigned", "scheduled", "completed"}
                => appts'[i].assigned_agent_id # NoId
          /\ (i \in Ids /\ appts'[i].status = "cancelled")
                => appts'[i].assigned_agent_id = appts[i].assigned_agent_id]_vars

\* one appointment was cancelled while pending and has no agent, another was
\* completed by its agent
C16_Witness ==
    /\ \E i \in Ids : /\ appts[i].status = "cancelled"
                       /\ appts[i].assigned_agent_id = NoId
    /\ \E j \in Ids : /\ appts[j].status = "completed"
                       /\ appts[j].assigned_agent_id = 2
                       /\ appts[j].scheduled_date # NoId

\* C17: outcome and completedAt are set only on appointments whose status is
\* completed.
C17_OutcomeOnlyOnCompleted ==
    \A i \in Ids :
        appts[i].status # "completed"
            => appts[i].outcome = "NULL" /\ appts[i].completed_at = NoTime

\* C18: completeAppointment by the owner of a scheduled appointment with any
\* of the five outcome values is answered Ok, and the stored outcome is the
\* value given.
C18_FiveOutcomes ==
    [][\A t \in Threads :
          (/\ Answers(t, "complete")
           /\ Row(t).status = "scheduled"
           /\ req[t].outcome \in Outcomes)
          => /\ resp'[t].code = "Ok"
             /\ RowAfter(t).status = "completed"
             /\ RowAfter(t).outcome = req[t].outcome]_vars

\* C19: a cancel answered Ok leaves the appointment cancelled, its agentNotes
\* the notes it had followed by the cancellation reason, and its
\* scheduledDate, scheduledTime, assignedAgentId, assignedAt and customer
\* fields as they were.
C19_CancelEffect ==
    [][\A t \in Threads :
          (Answers(t, "cancel") /\ resp'[t].code = "Ok")
          => LET b == Row(t)
                 a == RowAfter(t)
                 n == Len(b.agent_notes)
             IN  /\ a.status = "cancelled"
                 /\ Len(a.agent_notes) = n + 1
                 /\ SubSeq(a.agent_notes, 1, n) = b.agent_notes
                 /\ a.agent_notes[n + 1] = "Cancelled: " \o req[t].reason
                 /\ a.scheduled_date = b.scheduled_date
                 /\ a.scheduled_time = b.scheduled_time
                 /\ a.assigned_agent_id = b.assigned_agent_id
                 /\ a.assigned_at = b.assigned_at
                 /\ a.customer_email = b.customer_email
                 /\ a.property_id = b.property_id
                 /\ a.created_at = b.created_at]_vars

\* a scheduled appointment with a note was cancelled: the note precedes the
\* reason, the slot and the agent are still recorded
C19_Witness ==
    /\ resp[1].req.op = "cancel" /\ resp[1].code = "Ok"
    /\ resp[1].req.id \in Ids
    /\ LET a == appts[resp[1].req.id]
       IN  /\ a.status = "cancelled"
           /\ a.agent_notes = <<"note", "Cancelled: r">>
           /\ a.scheduled_date = 1 /\ a.scheduled_time = 2
           /\ a.assigned_agent_id = 2

\* C20: a submission for a property that does not exist is answered
\* PropertyNotFound, one for a property that is not available is answered
\* PropertyUnavailable, and neither adds an appointment or changes a priority
\* number.
C20_PropertyChecks ==
    [][\A t \in Threads :
          Submits(t) =>
            LET r == Submission(t)
            IN  /\ r.prop \notin DOMAIN properties
                      => /\ req'[t].pc = "idle"
                         /\ resp'[t].code = "PropertyNotFound"
                         /\ appts' = appts
                /\ (r.prop \in DOMAIN properties /\ properties[r.prop] # "available")
                      => /\ req'[t].pc = "idle"
                         /\ resp'[t].code = "PropertyUnavailable"
                         /\ appts' = appts]_vars

\* a submission for the sold property was refused while the table holds the
\* appointments of an available one
C20_Witness ==
    /\ resp[1].req.op = "create" /\ resp[1].code = "PropertyUnavailable"
    /\ resp[1].req.prop \in DOMAIN properties
    /\ properties[resp[1].req.prop] = "sold"
    /\ Len(appts) = 2
    /\ \A i \in Ids : appts[i].property_id # resp[1].req.prop

\* C21: assignAgent of an existing appointment to an agentId that names no
\* active agent is answered AgentInactive and changes no record; an assignAgent
\* answered Ok leaves the appointment assigned to the agent given, an active
\* agent.
C21_AgentMustBeActive ==
    [][\A t \in Threads :
          /\ Starts(t) =>
                LET r == Started(t)
                IN  (r.op = "assign" /\ r.id \in Ids /\ r.agent \notin Agents)
                    => /\ req'[t].pc = "idle"
                       /\ resp'[t].code = "AgentInactive"
                       /\ appts' = appts
          /\ (Answers(t, "assign") /\ resp'[t].code = "Ok")
                => /\ RowAfter(t).assigned_agent_id = req[t].agent
                   /\ RowAfter(t).assigned_agent_id \in Agents]_vars

\* the first appointment is assigned to agent 2; assigning the second to the
\* agent who is not active was refused
C21_Witness ==
    /\ resp[1].req.op = "assign" /\ resp[1].code = "AgentInactive"
    /\ resp[1].req.agent = InactiveAgent
    /\ resp[1].req.id = 2 /\ Len(appts) = 2
    /\ appts[2].assigned_agent_id = NoId /\ appts[2].status = "pending"
    /\ appts[1].assigned_agent_id = 2 /\ appts[1].status = "assigned"

\* C22: an appointment created while scoring is enabled has a stored score,
\* and that score is above the threshold.
C22_ScoreAboveThreshold ==
    [][\A t \in Threads :
          (/\ Answers(t, "create") /\ resp'[t].code = "Created"
           /\ req[t].secret)
          => LET row == appts'[Len(appts')]
             IN  /\ row.recaptcha_score # NoScore
                 /\ row.recaptcha_score > RecaptchaThreshold]_vars

\* C23: no step changes the customer fields or the anti-abuse metadata of an
\* appointment that exists: the property, the customer's email, the stored
\* score and the creation time stay what the creation stored.
C23_CustomerFieldsFrozen ==
    [][\A i \in Ids :
          /\ appts'[i].customer_email = appts[i].customer_email
          /\ appts'[i].recaptcha_score = appts[i].recaptcha_score
          /\ appts'[i].property_id = appts[i].property_id
          /\ appts'[i].created_at = appts[i].created_at]_vars

\* the second customer's appointment was assigned, scheduled, completed and
\* then cancelled, and still carries that customer's email
C23_Witness ==
    /\ resp[1].req.op = "cancel" /\ resp[1].code = "Ok"
    /\ resp[1].req.id \in Ids
    /\ LET a == appts[resp[1].req.id]
       IN  /\ a.customer_email = "e2"
           /\ a.status = "cancelled"
           /\ a.assigned_agent_id = 2
           /\ a.scheduled_date # NoId
           /\ a.outcome = "interested"

\* is date d in the range or the month and year the calendar request r names
Requested(r, d) ==
    IF r.startDate # NoId /\ r.endDate # NoId
    THEN r.startDate <= d /\ d <= r.endDate
    ELSE IF r.month # NoId /\ r.year # NoId
    THEN MONTH(d) = r.month /\ YEAR(d) = r.year
    ELSE TRUE

\* C24: getCalendar returns each scheduled or completed appointment that has
\* a scheduledDate in the range or month and year requested, of whatever
\* agent, once and no other appointment, by scheduledDate and then
\* scheduledTime ascending.
C24_Calendar ==
    [][\A t \in Threads :
          (Starts(t) /\ Started(t).op = "calendar")
          => LET r == Started(t)
                 res == r.result
             IN  /\ resp'[t].code = "Ok"
                 /\ {res[k] : k \in 1..Len(res)}
                      = {i \in Ids : /\ appts[i].status \in {"scheduled", "completed"}
                                     /\ appts[i].scheduled_date # NoId
                                     /\ Requested(r, appts[i].scheduled_date)}
                 /\ \A a, b \in 1..Len(res) :
                       a < b =>
                         /\ res[a] # res[b]
                         /\ appts[res[a]].scheduled_date <= appts[res[b]].scheduled_date
                         /\ appts[res[a]].scheduled_date = appts[res[b]].scheduled_date
                               => appts[res[a]].scheduled_time <= appts[res[b]].scheduled_time
                 /\ appts' = appts]_vars

\* agent 3 asked for February 2025: the calendar shows the completed
\* appointment of agent 2 on the first of February and not the cancelled one
\* that was scheduled for the same day
C24_Witness ==
    /\ resp[1].req.op = "calendar" /\ resp[1].code = "Ok"
    /\ resp[1].req.user = 3
    /\ resp[1].req.month = 2 /\ resp[1].req.year = 2025
    /\ resp[1].req.result = <<1>>
    /\ Len(appts) = 2
    /\ appts[1].status = "completed" /\ appts[1].scheduled_date = Feb01
    /\ appts[1].assigned_agent_id = 2
    /\ appts[2].status = "cancelled" /\ appts[2].scheduled_date = Feb01

\* C25: a submission of a client that has already sent 10 or more in the
\* current hour is answered by the form limiter and creates nothing.
C25_FormRateLimit ==
    [][\A t \in Threads :
          (/\ Starts(t)
           /\ Started(t).op = "create"
           /\ Started(t).client \in Clients
           /\ hits.posts[Started(t).client] >= 10)
          => /\ resp'[t].code = "TooManyRequests"
             /\ req'[t].pc = "idle"
             /\ appts' = appts]_vars

\* the rows of property p
RowsOf(p) == {i \in Ids : appts[i].property_id = p}

\* C26: the row a create inserts for property P gets priority 1 when P has no
\* appointment, and otherwise one more than the largest priority number among
\* all appointments of P, the cancelled ones included.
C26_InsertPriority ==
    [][\A t \in Threads :
          (Answers(t, "create") /\ resp'[t].code = "Created")
          => LET n == appts'[Len(appts')].priority_number
                 P == RowsOf(req[t].prop)
             IN  IF P = {}
                 THEN n = 1
                 ELSE /\ \E i \in P : appts[i].priority_number = n - 1
                      /\ \A i \in P : appts[i].priority_number < n]_vars

\* a row was inserted while the largest priority number of its property was
\* held by a cancelled row
C26_Witness ==
    \E t \in Threads :
        /\ resp[t].code = "Created"
        /\ resp[t].req.id = Len(appts)
        /\ \E i \in Ids :
              /\ i < Len(appts)
              /\ appts[i].property_id = appts[Len(appts)].property_id
              /\ appts[i].status = "cancelled"
              /\ appts[i].priority_number + 1 = appts[Len(appts)].priority_number
              /\ \A j \in NonCancelled(appts[i].property_id) :
                    j < Len(appts) => appts[j].priority_number < appts[i].priority_number

\* C27: a cancellation sets the status and renumbers in one step, whatever
\* creations and cancellations of the property run beside it (every higher
\* non-cancelled priority goes down by one in the step that sets the status),
\* and once every started operation has finished the non-cancelled priority
\* numbers of each property are exactly 1..N.
C27_AtomicCancel ==
    [][/\ \A t \in Threads :
             (/\ Answers(t, "cancel") /\ resp'[t].code = "Ok"
              /\ Row(t).status # "cancelled")
             => /\ RowAfter(t).status = "cancelled"
                /\ \A j \in NonCancelled(Row(t).property_id) \ {req[t].id} :
                      appts'[j].priority_number =
                          IF appts[j].priority_number > Row(t).priority_number
                          THEN appts[j].priority_number - 1
                          ELSE appts[j].priority_number
       /\ (\A t \in Threads : req'[t].pc = "idle")
              => \A p \in DOMAIN properties :
                    LET N == {i \in DOMAIN appts' : /\ appts'[i].property_id = p
                                                   /\ appts'[i].status # "cancelled"}
                    IN  {appts'[i].priority_number : i \in N} = 1..Cardinality(N)]_vars

\* C28: of two non-cancelled appointments of one property, the one created
\* first (the lower id) has the lower priority number.
C28_SubmissionOrder ==
    \A p \in DOMAIN properties :
        \A a, b \in NonCancelled(p) :
            a < b => appts[a].priority_number < appts[b].priority_number

\* this step answers a request of t, at its lookups or later
Responds(t) ==
    /\ req'[t].pc = "idle"
    /\ \/ req[t].pc # "idle"
       \/ resp'[t] # resp[t] /\ resp'[t].code # "none"

\* the write of the request r is in the table after the step
Persisted(r) ==
    CASE r.op = "create" ->
            /\ Len(appts') = Len(appts) + 1
            /\ r.id = Len(appts')
            /\ appts'[r.id].property_id = r.prop
            /\ appts'[r.id].customer_email = r.email
      [] r.op = "assign" ->
            /\ appts'[r.id].status = "assigned"
            /\ appts'[r.id].assigned_agent_id = r.agent
      [] r.op = "schedule" ->
            /\ appts'[r.id].status = "scheduled"
            /\ appts'[r.id].scheduled_date = r.date
            /\ appts'[r.id].scheduled_time = r.time
      [] OTHER -> FALSE

\* C29: a request sends a notification only when it is a create, assign or
\* schedule answered with success, in the step whose write is in the table;
\* a request rejected or answered 500 sends none and writes nothing, and
\* every create, assign and schedule that succeeds sends its notification.
C29_MailAfterWrite ==
    [][\A t \in Threads :
          Responds(t) =>
            LET r == resp'[t].req
                ok == /\ r.op \in {"create", "assign", "schedule"}
                      /\ resp'[t].code \in {"Created", "Ok"}
            IN  /\ r.mail # "none" <=> ok
                /\ r.mail # "none" => Persisted(r)
                /\ (r.op \in {"create", "assign", "schedule"} /\ ~ok)
                      => appts' = appts]_vars

\* a schedule call was answered Ok: its row is scheduled and its mail sent
C29_Witness ==
    \E t \in Threads :
        /\ resp[t].code = "Ok"
        /\ resp[t].req.op = "schedule"
        /\ resp[t].req.mail = "Viewing Scheduled"
        /\ appts[resp[t].req.id].status = "scheduled"

\* C30: GET /api/properties/my-sales by an agent is handled by the my-sales
\* handler, not by the handler of /:id.
C30_MySalesDispatch ==
    [][\A t \in Threads :
          (/\ Starts(t)
           /\ Started(t).op = "properties"
           /\ Started(t).method = "GET"
           /\ Started(t).path = <<"my-sales">>
           /\ Started(t).user \in Agents)
          => /\ resp'[t].req.handler = "GET /my-sales"
             /\ resp'[t].code = "Handled"]_vars

====
